---------------------------- MODULE Spec2Model ----------------------------
(***************************************************************************)
(* A model of exp/wave/wave.py (ausocean/cloud): the wave-measurement      *)
(* pipeline waveHeight / wavePeriod / waveLength and the functions it is   *)
(* built from.                                                             *)
(*                                                                         *)
(* Language semantics.  wave.py is Python 2 code (App Engine python27):    *)
(* `/` between two ints is floor division (lines 130, 170-175, 181-182),   *)
(* `[0.0] * sz` needs an int sz (line 186) and slices need int indices     *)
(* (line 171).  Under Python 3 every frame that passes the size check      *)
(* stops at line 186 with a TypeError, so Python 2 is the only build in    *)
(* which the program runs, and it is the one modelled.                     *)
(*                                                                         *)
(* Numbers.  A Python float is modelled by an exact rational <<n, d>>      *)
(* (d > 0, lowest terms); rounding of IEEE doubles is not modelled.        *)
(* math.pi is the rational Pi below.  math.tanh is computed in fixed point *)
(* (FP units per 1.0), and so are the candidate wavelengths that are       *)
(* compared with it.                                                       *)
(*                                                                         *)
(* Python values are tagged: [t |-> "None"], [t |-> "num", v |-> <<n,d>>], *)
(* [t |-> "list", v |-> <<...>>].  A call's outcome is a record            *)
(*   [kind, val, exc, log, calls]                                          *)
(* kind "return" with the value val, or kind "raise" with the exception    *)
(* exc that leaves the function unhandled; log is the sequence of          *)
(* logging.warn messages written and calls the functions invoked, in       *)
(* order.                                                                  *)
(***************************************************************************)
EXTENDS Integers, Sequences, FiniteSets, TLC

VARIABLES
  data,     \* the byte buffer handed to a public operation (a frame)
  depth,    \* the depth argument of waveLength / computeWavelength, metres
  series,   \* the list argument of a direct call of an internal function
  arg,      \* its integer argument: k (movingAverage), samplePeriod in ms
  period,   \* the period argument of the wavelength functions, in ms
  fn,       \* the function that was called, "" before the call
  result    \* the outcome of that call

vars == <<data, depth, series, arg, period, fn, result>>

----------------------------------------------------------------------------
(* Exact rational arithmetic standing for Python float arithmetic.         *)

Abs(i) == IF i < 0 THEN -i ELSE i

Min(a, b) == IF a < b THEN a ELSE b

RECURSIVE GCD(_, _)
GCD(a, b) == IF b = 0 THEN a ELSE GCD(b, a % b)

Norm(n, d) ==
  LET g == GCD(Abs(n), d)
  IN  <<n \div g, d \div g>>

Zero == <<0, 1>>

MinusOne == <<-1, 1>>

FromInt(i) == <<i, 1>>

RNeg(a) == <<-a[1], a[2]>>

RAdd(a, b) ==
  LET g == GCD(a[2], b[2])
  IN  Norm(a[1] * (b[2] \div g) + b[1] * (a[2] \div g), (a[2] \div g) * b[2])

RSub(a, b) == RAdd(a, RNeg(b))

RMul(a, b) ==
  LET g1 == GCD(Abs(a[1]), b[2])
      g2 == GCD(Abs(b[1]), a[2])
  IN  IF a[1] = 0 \/ b[1] = 0 THEN Zero
      ELSE <<(a[1] \div g1) * (b[1] \div g2), (a[2] \div g2) * (b[2] \div g1)>>

\* 1/a, a # 0
RInv(a) == IF a[1] < 0 THEN <<-a[2], -a[1]>> ELSE <<a[2], a[1]>>

RDiv(a, b) == RMul(a, RInv(b))

RLt(a, b) ==
  LET g == GCD(a[2], b[2])
  IN  a[1] * (b[2] \div g) < b[1] * (a[2] \div g)

RAbs(a) == <<Abs(a[1]), a[2]>>

\* sum(list): left to right from 0
RECURSIVE Sum(_)
Sum(s) == IF s = <<>> THEN Zero ELSE RAdd(Sum(SubSeq(s, 1, Len(s) - 1)), s[Len(s)])

RECURSIVE RMax(_)
RMax(s) ==
  IF Len(s) = 1 THEN s[1]
  ELSE LET m == RMax(SubSeq(s, 1, Len(s) - 1))
       IN  IF RLt(m, s[Len(s)]) THEN s[Len(s)] ELSE m

RECURSIVE RMin(_)
RMin(s) ==
  IF Len(s) = 1 THEN s[1]
  ELSE LET m == RMin(SubSeq(s, 1, Len(s) - 1))
       IN  IF RLt(s[Len(s)], m) THEN s[Len(s)] ELSE m

\* Python's s[a:b] for 0 <= a: the elements at (0-based) indices a .. b-1,
\* b clipped to len(s).
PySlice(s, a, b) == SubSeq(s, a + 1, Min(b, Len(s)))

----------------------------------------------------------------------------
(* Python values and call outcomes.                                        *)

PyNone == [t |-> "None", v |-> <<>>]

Num(r) == [t |-> "num", v |-> r]

List(s) == [t |-> "list", v |-> s]

Ret(v, log, calls) ==
  [kind |-> "return", val |-> v, exc |-> "", log |-> log, calls |-> calls]

Raise(e, log, calls) ==
  [kind |-> "raise", val |-> PyNone, exc |-> e, log |-> log, calls |-> calls]

Pending == [kind |-> "pending", val |-> PyNone, exc |-> "", log |-> <<>>, calls |-> <<>>]

\* Python's `not x` for the values the program tests: None, a float, a list.
Falsy(x) ==
  \/ x.t = "None"
  \/ x.t = "num" /\ x.v[1] = 0
  \/ x.t = "list" /\ Len(x.v) = 0

----------------------------------------------------------------------------
(* movingAverage (lines 166-176).  k/2 is integer division; the list is    *)
(* rewritten in place, index by index, so a window reads the values        *)
(* already written at lower indices.                                       *)

\* which branch of the if/elif chain index n takes
Branch(n, h, len) ==
  IF n > h /\ n < len - h THEN "interior"
  ELSE IF n < h THEN "head"
  ELSE IF n > len - h THEN "tail"
  ELSE "skip"

\* the slice the branch averages
Window(samples, h, n) ==
  LET b == Branch(n, h, Len(samples))
  IN  IF b = "interior" THEN PySlice(samples, n - h, n + h)
      ELSE IF b = "head" THEN PySlice(samples, 0, n + h)
      ELSE IF b = "tail" THEN PySlice(samples, n - h, Len(samples))
      ELSE <<>>

\* sum(w)/len(w), len(w) > 0
Mean(w) == RDiv(Sum(w), FromInt(Len(w)))

\* the for loop from index n on; ok = FALSE when sum([])/len([]) divides by 0
RECURSIVE SmoothFrom(_, _, _)
SmoothFrom(samples, h, n) ==
  IF n >= Len(samples) THEN [ok |-> TRUE, s |-> samples]
  ELSE IF Branch(n, h, Len(samples)) = "skip" THEN SmoothFrom(samples, h, n + 1)
  ELSE IF Len(Window(samples, h, n)) = 0 THEN [ok |-> FALSE, s |-> samples]
  ELSE SmoothFrom([samples EXCEPT ![n + 1] = Mean(Window(samples, h, n))], h, n + 1)

movingAverage(samples, k) ==
  LET r == SmoothFrom(samples, k \div 2, 0)
  IN  IF r.ok THEN Ret(List(r.s), <<>>, <<>>)
      ELSE Raise("ZeroDivisionError", <<>>, <<>>)

----------------------------------------------------------------------------
(* Call plumbing: the outcome o of a callee `name`, seen from a caller     *)
(* that has already logged log0 and made the calls calls0.                 *)

After(name, o, log0, calls0) ==
  [o EXCEPT !.log = log0 \o @, !.calls = calls0 \o <<name>> \o @]

----------------------------------------------------------------------------
(* computePeriod (lines 109-133).                                          *)

\* int(1/(samplePeriod*0.001)), samplePeriod > 0 (line 112)
OneSecondWindow(samplePeriod) == 1000 \div samplePeriod

\* lines 117-120: a sign change between index n and n+1 (0-based)
IsCrossing(s, n) ==
  \/ RLt(s[n + 1], Zero) /\ RLt(Zero, s[n + 2])
  \/ RLt(Zero, s[n + 1]) /\ RLt(s[n + 2], Zero)

\* lines 113-120: the crossing indices, ascending
Crossings(s) ==
  SelectSeq([i \in 1..(Len(s) - 1) |-> i - 1], LAMBDA n : IsCrossing(s, n))

\* a variant of the test below that lets a single crossing through
TooFewCrossingsOffByOne(crossings) == Len(crossings) < 1

\* line 123: len(crossings) < 2
TooFewCrossings(crossings) == Len(crossings) < 2

\* lines 126-129: the sum of the consecutive gaps
RECURSIVE TotalGaps(_)
TotalGaps(c) ==
  IF Len(c) < 2 THEN 0
  ELSE TotalGaps(SubSeq(c, 1, Len(c) - 1)) + (c[Len(c)] - c[Len(c) - 1])

PeriodWarning == "wave height: Wave period greater than 20 sec. Could not compute period."

computePeriod(samples, samplePeriod) ==
  IF samplePeriod = 0
  THEN Raise("ZeroDivisionError", <<>>, <<>>)            \* 1/(0*0.001)
  ELSE
    LET sm == movingAverage(samples, OneSecondWindow(samplePeriod))
        crossings == Crossings(sm.val.v)
        total == TotalGaps(crossings)
        \* line 130: both operands are ints, so `/` is floor division
        halfPeriods == (total \div (Len(crossings) - 1)) * 2
    IN  IF sm.kind = "raise" THEN After("movingAverage", sm, <<>>, <<>>)
        ELSE IF TooFewCrossings(crossings)
        THEN Ret(PyNone, <<PeriodWarning>>, <<"movingAverage">>)
        ELSE IF Len(crossings) - 1 = 0
        THEN Raise("ZeroDivisionError", <<>>, <<"movingAverage">>)
        ELSE Ret(Num(Norm(samplePeriod * halfPeriods, 1000)), <<>>, <<"movingAverage">>)

----------------------------------------------------------------------------
(* computeDisplacement (lines 135-164).                                    *)

GRAVITY == <<981, 100>>

MIN_ACCELERATION == <<2, 5>>

\* math.pi, as a rational
Pi == <<22, 7>>

\* int(float(0.25/(samplePeriod*0.001))), samplePeriod > 0 (lines 145, 168)
QuarterSecondWindow(samplePeriod) == 250 \div samplePeriod

\* lines 141-142
VerticalChannel(accelerations) ==
  [n \in 1..Len(accelerations) |-> accelerations[n][3]]

\* lines 148-151: the samples counted as "no significant acceleration"
zeroAccelCounter(zAccelerations) ==
  Cardinality({n \in 1..Len(zAccelerations) :
                 RLt(zAccelerations[n], MIN_ACCELERATION)})

\* line 163: -(2*pi*(1/period)) * (2*pi*(1/period))
NegOmegaSquared(p) ==
  LET omega == RMul(RMul(FromInt(2), Pi), RInv(p))
  IN  RMul(RNeg(omega), omega)

computeDisplacement(accelerations, samplePeriod) ==
  IF samplePeriod = 0
  THEN Raise("ZeroDivisionError", <<>>, <<>>)            \* 0.25/(0*0.001)
  ELSE
    LET sm == movingAverage(VerticalChannel(accelerations),
                            QuarterSecondWindow(samplePeriod))
        z == sm.val.v
        per == computePeriod(z, samplePeriod)
    IN  IF sm.kind = "raise" THEN After("movingAverage", sm, <<>>, <<>>)
        ELSE IF zeroAccelCounter(z) > Len(z) - 1
        THEN Ret(List([n \in 1..Len(z) |-> Zero]), <<>>, <<"movingAverage">>)
        ELSE IF per.kind = "raise"
        THEN After("computePeriod", per, <<>>, <<"movingAverage">>)
        ELSE IF Falsy(per.val)
        THEN After("computePeriod", [per EXCEPT !.val = PyNone], <<>>, <<"movingAverage">>)
        ELSE After("computePeriod",
                   [per EXCEPT !.val = List([n \in 1..Len(z) |->
                                   RDiv(z[n], NegOmegaSquared(per.val.v))])],
                   <<>>, <<"movingAverage">>)

----------------------------------------------------------------------------
(* The wavelength functions (lines 241-257).                               *)

MIN_WAVELENGTH == 5

MAX_WAVELENGTH == 300

MIN_ACCURACY == 5

\* fixed point: FP units per 1.0
FP == 10000

\* floor(a*b/c) for 0 <= a, 0 <= b, 0 < c, without forming a*b
RECURSIVE MulDivRem(_, _, _)
MulDivRem(a, b, c) ==
  IF b = 0 THEN <<0, 0>>
  ELSE LET half == MulDivRem(a, b \div 2, c)
           q2 == 2 * half[1] + (IF 2 * half[2] >= c THEN 1 ELSE 0)
           r2 == IF 2 * half[2] >= c THEN 2 * half[2] - c ELSE 2 * half[2]
           r3 == r2 + (IF b % 2 = 1 THEN a % c ELSE 0)
           q3 == q2 + (IF b % 2 = 1 THEN a \div c ELSE 0)
       IN  IF r3 >= c THEN <<q3 + 1, r3 - c>> ELSE <<q3, r3>>

MulDiv(a, b, c) == MulDivRem(a, b, c)[1]

\* a non-negative rational in fixed point
ToFP(r) == MulDiv(r[1], FP, r[2])

\* a/c rounded to the nearest integer, a >= 0, c > 0
RoundDiv(a, c) == (2 * a + c) \div (2 * c)

\* exp(-i) in fixed point, i = 0 .. 9
ExpNegInt == <<10000, 3679, 1353, 498, 183, 67, 25, 9, 3, 1>>

\* the Taylor series of exp(-f/FP), 0 <= f < FP, from the term of degree k on
RECURSIVE ExpNegFrac(_, _, _)
ExpNegFrac(f, k, term) ==
  IF term = 0 \/ k > 12 THEN 0
  ELSE LET next == RoundDiv(term * f, k * FP)
       IN  (IF k % 2 = 1 THEN -next ELSE next) + ExpNegFrac(f, k + 1, next)

\* exp(-y/FP) in fixed point, y >= 0
ExpNeg(y) ==
  IF y \div FP >= Len(ExpNegInt) THEN 0
  ELSE RoundDiv(ExpNegInt[(y \div FP) + 1] * (FP + ExpNegFrac(y % FP, 1, FP)), FP)

\* math.tanh(x) in fixed point for a rational x >= 0: (1 - e^-2x)/(1 + e^-2x);
\* a double's tanh is exactly 1.0 from x = 20 on
Tanh(x) ==
  IF x[1] >= 20 * x[2] THEN FP
  ELSE LET e == ExpNeg(MulDiv(2 * x[1], FP, x[2]))
       IN  RoundDiv((FP - e) * FP, FP + e)

\* line 243
computeDeepWaterWavelength(p) ==
  RMul(RMul(RDiv(GRAVITY, RMul(FromInt(2), Pi)), p), p)

\* line 251: (GRAVITY*period*period)/(2*math.pi), in fixed point
DeepWaterFP(p) == ToFP(RDiv(RMul(RMul(GRAVITY, p), p), RMul(FromInt(2), Pi)))

\* line 251: `current` for candidate n, in fixed point; l0 = DeepWaterFP(period)
Current(l0, d, n) ==
  LET t == Tanh(RDiv(RMul(RMul(FromInt(2), Pi), d), FromInt(n)))
  IN  (l0 \div FP) * t + ((l0 % FP) * t) \div FP

\* a variant of the first candidate below that starts the search at 1 m
FirstCandidateLow == MIN_WAVELENGTH - 4

\* line 250: range(MIN_WAVELENGTH, MAX_WAVELENGTH) is [first, last)
FirstCandidate == MIN_WAVELENGTH

LastCandidate == MAX_WAVELENGTH - 1

\* lines 251-254: the loop body for candidate n; st = <<prevDiff, length>>
SearchStep(l0, d, st, n) ==
  LET diff == Abs(Current(l0, d, n) - n * FP)
  IN  IF diff < st[1] THEN <<diff, n>> ELSE st

\* line 250: the loop over lo .. hi in ascending order, from the state st.
\* The range is split in halves to bound the depth of the evaluation; the
\* test on the first half's state (prevDiff is never negative) makes the
\* evaluator finish the first half before it starts the second.
RECURSIVE SearchLoop(_, _, _, _, _)
SearchLoop(l0, d, lo, hi, st) ==
  IF lo > hi THEN st
  ELSE IF lo = hi THEN SearchStep(l0, d, st, lo)
  ELSE LET firstHalf == SearchLoop(l0, d, lo, (lo + hi) \div 2, st)
       IN  IF firstHalf[1] >= 0
           THEN SearchLoop(l0, d, ((lo + hi) \div 2) + 1, hi, firstHalf)
           ELSE firstHalf

RangeWarning == "wave length: wavelength could not be calculated as it was not within expected range."

\* d > 0: a depth; p > 0: a period in seconds
computeWavelength(d, p) ==
  LET length == SearchLoop(DeepWaterFP(p), d, FirstCandidate, LastCandidate,
                           <<MIN_ACCURACY * FP, -1>>)[2]
  IN  Ret(Num(FromInt(length)), IF length = -1 THEN <<RangeWarning>> ELSE <<>>, <<>>)

----------------------------------------------------------------------------
(* Frames and the three public operations (lines 178-239).                 *)
(*                                                                         *)
(* A byte buffer is [hdr, samplePeriod, nSamples, recs, tail]: hdr bytes   *)
(* of header (16 when whole, and then the two header fields the program    *)
(* reads), the whole 24-byte records that follow, and tail < 24 bytes      *)
(* after the last whole record.  A record is the six floats                *)
(* <<ax, ay, az, mx, my, mz>>.                                             *)

HEADER_BYTES == 16

RECORD_BYTES == 24

\* len(data[16:])
PayloadLen(d) == Len(d.recs) * RECORD_BYTES + d.tail

\* lines 181-182: sz = len(data[16:])/4; sz /= 6
PayloadSize(d) == (PayloadLen(d) \div 4) \div 6

\* lines 186-188
rawSamples(d) == SubSeq(d.recs, 1, PayloadSize(d))

\* removeGravity (lines 73-107) on a level, north-pointing sensor with
\* dec = 0: ax = ay = 0, az > 0, mx = 0, my > 0 give roll = pitch =
\* heading = 0 and the identity rotation matrix, so lines 104-106 scale
\* the reading itself.
removeGravity(raw, dec) ==
  [n \in 1..Len(raw) |->
     <<RMul(raw[n][1], GRAVITY),
       RMul(raw[n][2], GRAVITY),
       RMul(RSub(raw[n][3], FromInt(1)), GRAVITY)>>]

SizeWarning(op) == op \o ": size of data does not match specified size."

waveHeight(d, dec) ==
  IF d.hdr < HEADER_BYTES THEN Raise("struct.error", <<>>, <<>>)
  ELSE IF PayloadSize(d) # d.nSamples
  THEN Ret(Num(MinusOne), <<SizeWarning("wave height")>>, <<>>)
  ELSE
    LET disp == After("computeDisplacement",
                      computeDisplacement(removeGravity(rawSamples(d), dec), d.samplePeriod),
                      <<>>, <<"removeGravity">>)
    IN  IF disp.kind = "raise" THEN disp
        ELSE IF Falsy(disp.val) THEN [disp EXCEPT !.val = Num(MinusOne)]
        ELSE [disp EXCEPT !.val = Num(RSub(RMax(disp.val.v), RMin(disp.val.v)))]

\* lines 205-211 and 226-232: the period of the vertical channel
FramePeriod(d, dec) ==
  After("computePeriod",
        computePeriod(VerticalChannel(removeGravity(rawSamples(d), dec)), d.samplePeriod),
        <<>>, <<"removeGravity">>)

wavePeriod(d, dec) ==
  IF d.hdr < HEADER_BYTES THEN Raise("struct.error", <<>>, <<>>)
  ELSE IF PayloadSize(d) # d.nSamples
  THEN Ret(Num(MinusOne), <<SizeWarning("wave period")>>, <<>>)
  ELSE
    LET per == FramePeriod(d, dec)
    IN  IF per.kind = "raise" THEN per
        ELSE IF Falsy(per.val) THEN [per EXCEPT !.val = Num(MinusOne)]
        ELSE per

waveLength(d, dp, dec) ==
  IF d.hdr < HEADER_BYTES THEN Raise("struct.error", <<>>, <<>>)
  ELSE IF PayloadSize(d) # d.nSamples
  THEN Ret(Num(MinusOne), <<SizeWarning("wave length")>>, <<>>)
  ELSE
    LET per == FramePeriod(d, dec)
    IN  IF per.kind = "raise" THEN per
        ELSE IF Falsy(per.val) THEN [per EXCEPT !.val = Num(MinusOne)]
        ELSE IF dp = 0
        THEN [per EXCEPT !.val = Num(computeDeepWaterWavelength(per.val.v)),
                         !.calls = @ \o <<"computeDeepWaterWavelength">>]
        ELSE After("computeWavelength", computeWavelength(FromInt(dp), per.val.v),
                   per.log, per.calls)

----------------------------------------------------------------------------
(* The inputs.  One call is made: of a public operation on a frame, or of  *)
(* an internal function on a list and an integer, or of a wavelength       *)
(* function on a period.  The arguments the call does not take stay at     *)
(* their defaults.                                                         *)

\* the longest frame, in samples
MaxSamples == 4

\* the longest list handed to an internal function directly
MaxLen == 5

\* the widest window handed to movingAverage directly
MaxWindow == 6

\* vertical accelerations, m/s^2
Vals == {<<-1, 1>>, <<1, 5>>, <<1, 1>>}

\* the header's samplePeriod, ms
SamplePeriods == {0, 125, 500, 1000}

\* water depths, m; 0 is deep water
Depths == {0, 10, 1000}

\* periods handed to the wavelength functions directly, ms
Periods == {1000, 2000, 8000, 13000, 13860, 14000, 20000}

SeqsUpTo(S, n) == UNION {[1..m -> S] : m \in 0..n}

\* the reading of a level sensor whose vertical acceleration is z
LevelRecord(z) ==
  <<Zero, Zero, RAdd(FromInt(1), RDiv(z, GRAVITY)), Zero, FromInt(1), Zero>>

NoFrame == [hdr |-> 0, samplePeriod |-> 0, nSamples |-> 0, recs |-> <<>>, tail |-> 0]

\* buffers of 0 .. 15 bytes
ShortFrames ==
  {[NoFrame EXCEPT !.hdr = h] : h \in 0..(HEADER_BYTES - 1)}

\* buffers with a whole header: the declared count is the number of whole
\* records, one less or one more; 0, 1 or 23 bytes follow the last record
WholeFrames ==
  UNION {{[hdr |-> HEADER_BYTES, samplePeriod |-> sp, nSamples |-> ns,
           recs |-> [n \in 1..Len(zs) |-> LevelRecord(zs[n])], tail |-> tl] :
            sp \in SamplePeriods, tl \in {0, 1, RECORD_BYTES - 1},
            ns \in {m \in (Len(zs) - 1)..(Len(zs) + 1) : m >= 0}} :
         zs \in SeqsUpTo(Vals, MaxSamples)}

FrameInput == series = <<>> /\ arg = 0 /\ period = 0

ListInput == data = NoFrame /\ period = 0

PeriodInput == data = NoFrame /\ series = <<>> /\ arg = 0 /\ period # 0

Init ==
  /\ \/ /\ data \in ShortFrames \cup WholeFrames
        /\ FrameInput
     \/ /\ series \in SeqsUpTo(Vals, MaxLen)
        /\ arg \in (0..MaxWindow) \cup SamplePeriods
        /\ ListInput
     \/ /\ period \in Periods
        /\ PeriodInput
  /\ depth = 0
  /\ fn = ""
  /\ result = Pending

WaveHeight ==
  /\ fn = ""
  /\ FrameInput
  /\ fn' = "waveHeight"
  /\ result' = waveHeight(data, 0)
  /\ UNCHANGED <<data, depth, series, arg, period>>

WavePeriod ==
  /\ fn = ""
  /\ FrameInput
  /\ fn' = "wavePeriod"
  /\ result' = wavePeriod(data, 0)
  /\ UNCHANGED <<data, depth, series, arg, period>>

WaveLength(dp) ==
  /\ fn = ""
  /\ FrameInput
  /\ fn' = "waveLength"
  /\ depth' = dp
  /\ result' = waveLength(data, dp, 0)
  /\ UNCHANGED <<data, series, arg, period>>

MovingAverage ==
  /\ fn = ""
  /\ ListInput
  /\ arg \in 0..MaxWindow
  /\ fn' = "movingAverage"
  /\ result' = movingAverage(series, arg)
  /\ UNCHANGED <<data, depth, series, arg, period>>

ComputePeriod ==
  /\ fn = ""
  /\ ListInput
  /\ arg \in SamplePeriods
  /\ fn' = "computePeriod"
  /\ result' = computePeriod(series, arg)
  /\ UNCHANGED <<data, depth, series, arg, period>>

ComputeDisplacement ==
  /\ fn = ""
  /\ ListInput
  /\ arg \in SamplePeriods
  /\ fn' = "computeDisplacement"
  /\ result' = computeDisplacement([n \in 1..Len(series) |-> <<Zero, Zero, series[n]>>], arg)
  /\ UNCHANGED <<data, depth, series, arg, period>>

ComputeDeepWaterWavelength ==
  /\ fn = ""
  /\ PeriodInput
  /\ fn' = "computeDeepWaterWavelength"
  /\ result' = Ret(Num(computeDeepWaterWavelength(Norm(period, 1000))), <<>>, <<>>)
  /\ UNCHANGED <<data, depth, series, arg, period>>

ComputeWavelength(dp) ==
  /\ fn = ""
  /\ PeriodInput
  /\ fn' = "computeWavelength"
  /\ depth' = dp
  /\ result' = computeWavelength(FromInt(dp), Norm(period, 1000))
  /\ UNCHANGED <<data, series, arg, period>>

Next ==
  \/ WaveHeight
  \/ WavePeriod
  \/ \E dp \in Depths : WaveLength(dp)
  \/ MovingAverage
  \/ ComputePeriod
  \/ ComputeDisplacement
  \/ ComputeDeepWaterWavelength
  \/ \E dp \in Depths \ {0} : ComputeWavelength(dp)

Spec == Init /\ [][Next]_vars

----------------------------------------------------------------------------
(* The properties.                                                         *)

PublicOps == {"waveHeight", "wavePeriod", "waveLength"}

WholeHeader == data.hdr = HEADER_BYTES

SizeMatches == PayloadSize(data) = data.nSamples

Returns(v) == result.kind = "return" /\ result.val = Num(v)

Called(name) == \E i \in 1..Len(result.calls) : result.calls[i] = name

OpLabel ==
  IF fn = "waveHeight" THEN "wave height"
  ELSE IF fn = "wavePeriod" THEN "wave period"
  ELSE "wave length"

\* the size check's outcome: -1, its warning, and nothing decoded or processed
FormatFailure ==
  /\ Returns(MinusOne)
  /\ result.log = <<SizeWarning(OpLabel)>>
  /\ result.calls = <<>>

\* the frame's vertical accelerations
FrameZ == VerticalChannel(removeGravity(rawSamples(data), 0))

\* C1: a buffer with a whole header whose payload is not exactly
\* sampleCount * 24 bytes long (1 .. 23 trailing bytes included) makes each
\* public operation report the format failure without decoding or
\* processing any sample.
C1_SizeMismatchRejected ==
  (fn \in PublicOps /\ WholeHeader /\ PayloadLen(data) # data.nSamples * RECORD_BYTES)
    => FormatFailure

\* C2: on a frame that passes the size check, whatever its samplePeriodMs,
\* each public operation ends with a returned value (a number or the failure
\* value), never with an unhandled error.
C2_NeverAborts ==
  (fn \in PublicOps /\ WholeHeader /\ SizeMatches) => result.kind = "return"

\* the list the period estimator is handed by the operation that was called:
\* the vertical channel (wavePeriod, waveLength) or the vertical channel
\* after the quarter-second smoothing (waveHeight)
EstimatorInput ==
  IF fn = "waveHeight"
  THEN movingAverage(FrameZ, QuarterSecondWindow(data.samplePeriod)).val.v
  ELSE FrameZ

\* the estimator smoothed that list and found fewer than 2 crossings
EstimatorFindsFewCrossings ==
  LET sm == movingAverage(EstimatorInput, OneSecondWindow(data.samplePeriod))
  IN  sm.kind = "return" /\ Len(Crossings(sm.val.v)) < 2

\* the frame's vertical series, smoothed over one second, has fewer than 2
\* crossings
FrameHasFewCrossings ==
  LET sm == movingAverage(FrameZ, OneSecondWindow(data.samplePeriod))
  IN  sm.kind = "return" /\ Len(Crossings(sm.val.v)) < 2

InsufficientData == Returns(MinusOne) /\ result.log = <<PeriodWarning>>

AllBelowThreshold(z) ==
  \A n \in 1..Len(z) : RLt(RAbs(z[n]), MIN_ACCELERATION)

\* computeDisplacement returned zeros without calling the period estimator
TookShortCircuit ==
  /\ result.kind = "return"
  /\ ~Called("computePeriod")
  /\ result.val = List([n \in 1..Len(series) |-> Zero])

\* C4: computeDisplacement takes the stationary short-circuit (an all-zero
\* series of the input's length, the period estimator not invoked) exactly
\* when every smoothed vertical sample has magnitude below MIN_ACCELERATION;
\* otherwise the period estimator is invoked.
C4_ShortCircuitIffAllMagnitudesSmall ==
  (fn = "computeDisplacement" /\ arg # 0
     /\ movingAverage(series, QuarterSecondWindow(arg)).kind = "return")
    => LET z == movingAverage(series, QuarterSecondWindow(arg)).val.v
       IN  /\ TookShortCircuit <=> AllBelowThreshold(z)
           /\ ~AllBelowThreshold(z) => Called("computePeriod")

\* the call returned a wavelength, not the failure value
ReturnedWavelength ==
  result.kind = "return" /\ result.val.v # MinusOne

InSearchRange(v) ==
  /\ ~RLt(v, FromInt(MIN_WAVELENGTH))
  /\ ~RLt(FromInt(MAX_WAVELENGTH), v)

\* C5 (as stated): for every period and every depth, depth 0 included, a
\* wavelength returned by waveLength lies in [5, 300].
C5_WavelengthInRangeAtEveryDepth ==
  (fn = "waveLength" /\ ReturnedWavelength) => InSearchRange(result.val.v)

\* C5 (amended): for every period and every depth other than 0, a wavelength
\* returned by waveLength, or by computeWavelength itself, lies in [5, 300].
C5_FiniteDepthWavelengthInRange ==
  (fn \in {"waveLength", "computeWavelength"} /\ depth # 0 /\ ReturnedWavelength)
    => InSearchRange(result.val.v)

\* C5 witness: waveLength at a finite depth returned a wavelength.
C5_Witness ==
  fn = "waveLength" /\ depth # 0 /\ ReturnedWavelength /\ Called("computeWavelength")

\* C6: a buffer shorter than the 16-byte header makes each public operation
\* return the format failure; the header parse does not abort it.
C6_ShortBufferRejected ==
  (fn \in PublicOps /\ data.hdr < HEADER_BYTES) => Returns(MinusOne)

\* the displacement series of the frame is a list of zeros (an empty list
\* included)
FlatSea ==
  LET disp == computeDisplacement(removeGravity(rawSamples(data), 0), data.samplePeriod)
  IN  /\ disp.kind = "return"
      /\ disp.val.t = "list"
      /\ \A n \in 1..Len(disp.val.v) : disp.val.v[n] = Zero

\* C7: the value that signals "no result" (-1) is returned exactly when a
\* failure was reported, and a valid frame whose displacement is all zero
\* (a frame with sampleCount = 0 included) yields height 0, not -1.
C7_NoResultIsNeverAResult ==
  (fn \in PublicOps /\ result.kind = "return")
    => /\ result.val = Num(MinusOne) <=> result.log # <<>>
       /\ (fn = "waveHeight" /\ WholeHeader /\ SizeMatches /\ FlatSea) => Returns(Zero)

\* C8: at a finite depth computeWavelength returns the candidate n of
\* 5 .. 300 (both included) with the smallest error |candidate(n) - n|,
\* provided that error is below MIN_ACCURACY, the lowest such n on equal
\* errors, and -1 exactly when no candidate of 5 .. 300 has an error below
\* MIN_ACCURACY.
C8_BestCandidateOfWholeRange ==
  fn = "computeWavelength" =>
    LET l0 == DeepWaterFP(Norm(period, 1000))
        errs == {<<n, Abs(Current(l0, FromInt(depth), n) - n * FP)>> :
                   n \in MIN_WAVELENGTH..MAX_WAVELENGTH}
        good == {e \in errs : e[2] < MIN_ACCURACY * FP}
        best == CHOOSE e \in good :
                  \A o \in good : e[2] < o[2] \/ (e[2] = o[2] /\ e[1] <= o[1])
    IN  IF good = {} THEN Returns(MinusOne) ELSE Returns(FromInt(best[1]))

\* C9: with c >= 2 crossings at x_1 < ... < x_c in the smoothed series,
\* computePeriod returns exactly 2 * ((x_c - x_1)/(c - 1)) * samplePeriodMs
\* / 1000, the mean gap not truncated, and the result is positive when
\* samplePeriodMs > 0.
C9_PeriodIsTwiceTheExactMeanGap ==
  (fn = "computePeriod" /\ arg # 0
     /\ movingAverage(series, OneSecondWindow(arg)).kind = "return")
    => LET x == Crossings(movingAverage(series, OneSecondWindow(arg)).val.v)
           c == Len(x)
       IN  c >= 2 =>
             /\ Returns(RMul(RMul(FromInt(2), Norm(x[c] - x[1], c - 1)),
                             Norm(arg, 1000)))
             /\ RLt(Zero, result.val.v)

Max(a, b) == IF a > b THEN a ELSE b

\* C10: movingAverage returns a list of the input's length whose entry at
\* every index n is the mean of the ORIGINAL samples in the window
\* [n - k/2, n + k/2) cut to the list's bounds; no entry is left unsmoothed
\* and none is computed from already-smoothed values.  (From k = 2 on, so
\* that the window is never empty.)
C10_EveryIndexAveragesTheOriginalSamples ==
  (fn = "movingAverage" /\ arg >= 2)
    => /\ result.kind = "return"
       /\ Len(result.val.v) = Len(series)
       /\ \A n \in 0..(Len(series) - 1) :
            result.val.v[n + 1] =
              Mean(PySlice(series, Max(0, n - arg \div 2), n + arg \div 2))

=============================================================================
